---- MODULE Spec2Model ----
(***************************************************************************)
(* Training / evaluation control loops of the vulnerability-detection      *)
(* harnesses:                                                              *)
(*   - Reveal  : src/Graph/models/reveal/trainer.py  (train, evaluate,     *)
(*               predict)                                                  *)
(*   - SVulD   : src/sequence/SVulD/run.py           (train, evaluate,     *)
(*               detect, main)                                             *)
(*   - zero-shot runner : src/LLM/run_zero_shot.py                         *)
(* Model parameters are abstracted to a version number: every optimizer    *)
(* step yields a fresh version, a restore copies a version back.           *)
(***************************************************************************)
EXTENDS Integers, Sequences, FiniteSets, TLC

VARIABLES
    prog,               \* which program this behaviour runs
    pc,                 \* control position inside it
    max_patience,       \* train(..., max_patience, ...)
    valid_every,        \* train(..., valid_every, ...)
    epoch_count,        \* loop variable of the epoch loop (idx in SVulD)
    batch_idx,          \* batches of the current epoch already processed
    cur_batch,          \* batch fetched for the current iteration (0: none)
    model,              \* live model parameters (version number)
    grad,               \* accumulated gradient: batches whose backward added to it
    best_f1,
    best_model,         \* None or <<params>>
    patience_counter,
    vf1,                \* F1 of the last validation pass
    file,               \* checkpoint file on disk
    ds,                 \* dataset adapter: per split, batches left / initialised
    early_stopping,     \* SVulD's module-level EarlyStopping object
    eval_loss,          \* SVulD: loss of the last validation pass
    inp,                \* inference runner: the input examples and batching
    out,                \* inference runner: the lists being collected
    test_json,          \* text of the test prediction file (None: not written)
    zs,                 \* zero-shot runner: subprocesses and result directory
    hist                \* history (ghost) of what the run did

vars == <<prog, pc, max_patience, valid_every, epoch_count, batch_idx, cur_batch,
          model, grad, best_f1, best_model, patience_counter, vf1, file, ds,
          early_stopping, eval_loss, inp, out, test_json, zs, hist>>

----------------------------------------------------------------------------
(* Bounds of the model *)

MaxEpochs == 6
MaxF1 == 3
MaxPatience == 3
MaxValidEvery == 2
NumTrainBatches == 2
NumValidBatches == 1
NumTestBatches == 1
NumPrompts == 2
MaxRecords == 2

----------------------------------------------------------------------------
(* Values *)

None == <<>>

num_epochs == MaxEpochs

\* F1 scores are scaled to 0..MaxF1 (0 is sklearn's F1 when nothing is right).
F1Values == 0 .. MaxF1

\* The checkpoint file: absent, left by an earlier run, truncated by open(.., "wb")
\* and not yet written, or holding a state dict written by this run.
FileAbsent  == [kind |-> "absent",  params |-> 0]
FileStale   == [kind |-> "stale",   params |-> -1]
FilePartial == [kind |-> "partial", params |-> 0]
FileOf(sd)  == [kind |-> "run",     params |-> sd[1]]

Splits == {"train", "valid", "test"}

\* run_zero_shot.py lines 8-9
all_gpus == <<0, 1, 6, 7>>
split_cnt == 2

\* run_zero_shot.py line 29: for prompt_id in range(100)
prompt_limit == 100

----------------------------------------------------------------------------
(* Dataset adapter (graph_dataset.DataSet; its code is not part of the     *)
(* sources, the contract is section 4.1 of the specification)              *)

BatchCount(split) ==
    CASE split = "train" -> NumTrainBatches
      [] split = "valid" -> NumValidBatches
      [] OTHER           -> inp.batch_count

DsInit == [s \in Splits |-> [ready |-> FALSE, left |-> 0, calls |-> 0, inits |-> 0]]

\* initialize_<split>_batches(): resets the iteration, returns the batch count
initialize_batches(d, split) ==
    [d EXCEPT ![split] = [ready |-> TRUE, left |-> BatchCount(split), calls |-> 0,
                          inits |-> IF @.inits < 2 THEN @.inits + 1 ELSE 2]]

\* get_next_<split>_batch() succeeds only after an initialisation with batches left
can_get_next(d, split) == d[split].ready /\ d[split].left > 0

\* the batch it returns (numbered from 1 in iteration order) and the new state
next_batch_id(d, split) == BatchCount(split) - d[split].left + 1

get_next_batch(d, split) ==
    [d EXCEPT ![split] = [@ EXCEPT !.left = @ - 1, !.calls = @ + 1]]

----------------------------------------------------------------------------
(* Examples, batches and the list operations of the inference runners      *)

MaxExamples == 3
MaxId == 2
MaxBatchSize == 2

\* class scores of an example, <<score of class 0, score of class 1>>, on a scale
\* where 1 stands for 0.5
ProbPairs == {<<2, 0>>, <<1, 1>>, <<0, 2>>}

Examples == [id : 1 .. MaxId, target : {0, 1}, probs : ProbPairs]

ExampleLists == UNION {[1 .. n -> Examples] : n \in 0 .. MaxExamples}

\* the batches a sequential loader of batch size bs yields, the last one shorter
RECURSIVE Batches(_, _)
Batches(xs, bs) ==
    IF Len(xs) = 0 THEN <<>>
    ELSE IF Len(xs) <= bs THEN <<xs>>
    ELSE <<SubSeq(xs, 1, bs)>> \o Batches(SubSeq(xs, bs + 1, Len(xs)), bs)

\* np.argmax(probs, axis=-1): the first index of the largest score
argmax(p) == IF p[2] > p[1] THEN 1 ELSE 0

\* run.py line 358: logits[:, 1] > 0.5
over_half(p) == p[2] > 1

\* list.extend
extendMutPrepend(l, items) == items \o l
extend(l, items) == l \o items

\* list.append
append(l, item) == Append(l, item)

\* np.concatenate(arrays, 0)
RECURSIVE concatenate(_)
concatenate(arrays) ==
    IF Len(arrays) = 0 THEN <<>> ELSE Head(arrays) \o concatenate(Tail(arrays))

\* trainer.py lines 174-186: what one batch adds to evaluate's four lists
evaluate_batch(o, batch) ==
    [o EXCEPT !.predictions = extend(@, [i \in 1 .. Len(batch) |-> argmax(batch[i].probs)]),
              !.expectations = extend(@, [i \in 1 .. Len(batch) |-> batch[i].target]),
              !.all_ids = extend(@, [i \in 1 .. Len(batch) |-> batch[i].id]),
              !.all_probs = extend(@, [i \in 1 .. Len(batch) |-> batch[i].probs[2]]),
              !.calls = @ + 1]

\* trainer.py lines 152-156: what one batch adds to predict_proba's list
predict_batch(o, batch) ==
    [o EXCEPT !.predictions = extend(@, [i \in 1 .. Len(batch) |-> batch[i].probs]),
              !.calls = @ + 1]

\* run.py lines 347-355: what one batch adds to detect's three lists
detect_batch(o, batch) ==
    [o EXCEPT !.logits = append(@, [i \in 1 .. Len(batch) |-> batch[i].probs]),
              !.labels = append(@, [i \in 1 .. Len(batch) |-> batch[i].target]),
              !.indices = append(@, [i \in 1 .. Len(batch) |-> batch[i].id]),
              !.calls = @ + 1]

\* trainer.py lines 119-120: for id, p in zip(all_ids, predications): ans.append(..)
zip_ans(ids, preds) ==
    [i \in 1 .. (IF Len(ids) <= Len(preds) THEN Len(ids) ELSE Len(preds)) |->
        [id |-> ids[i], pred |-> preds[i]]]

\* list.sort(key=lambda item: item['id']): stable, ascending
RECURSIVE insert_by_id(_, _)
insert_by_id(sorted, item) ==
    IF Len(sorted) = 0 THEN <<item>>
    ELSE IF sorted[Len(sorted)].id <= item.id THEN Append(sorted, item)
    ELSE Append(insert_by_id(SubSeq(sorted, 1, Len(sorted) - 1), item),
                sorted[Len(sorted)])

RECURSIVE sort_rec(_)
sort_rec(xs) ==
    IF Len(xs) = 0 THEN <<>>
    ELSE insert_by_id(sort_rec(SubSeq(xs, 1, Len(xs) - 1)), xs[Len(xs)])

sort_by_idMutNone(xs) == xs
sort_by_id(xs) == sort_rec(xs)

\* pd.DataFrame({"id": indices, "pred": preds}).to_dict("records"): one record per
\* row, in row order
to_dict_records(ids, preds) ==
    [i \in 1 .. Len(ids) |-> [id |-> ids[i], pred |-> preds[i]]]

\* json.dump: the text of a value, as its sequence of tokens
json_int(n) == ToString(n)

json_bool(b) == IF b THEN "true" ELSE "false"

json_object(id_tok, pred_tok) ==
    <<"{", "\"id\"", ":", id_tok, ",", "\"pred\"", ":", pred_tok, "}">>

RECURSIVE json_array(_)
json_array(items) ==
    IF Len(items) = 0 THEN <<>>
    ELSE IF Len(items) = 1 THEN items[1]
    ELSE items[1] \o <<",">> \o json_array(Tail(items))

\* a list of {id: int, pred: int} records
json_dump_int(ans) ==
    <<"[">> \o json_array([i \in 1 .. Len(ans) |->
                              json_object(json_int(ans[i].id), json_int(ans[i].pred))])
           \o <<"]">>

\* a list of {id: int, pred: bool} records
json_dump_bool(ans) ==
    <<"[">> \o json_array([i \in 1 .. Len(ans) |->
                              json_object(json_int(ans[i].id), json_bool(ans[i].pred))])
           \o <<"]">>

\* json.load: the value of a text
JsonInts == 0 .. (MaxId + NumPrompts * split_cnt * MaxRecords)

parse_int(tok) == CHOOSE n \in JsonInts : ToString(n) = tok

parse_value(tok) ==
    IF tok = "true" THEN TRUE ELSE IF tok = "false" THEN FALSE ELSE parse_int(tok)

\* a list of integers
json_dump_list(xs) ==
    <<"[">> \o json_array([i \in 1 .. Len(xs) |-> <<json_int(xs[i])>>]) \o <<"]">>

\* a number takes one place, the comma after it one more
json_load_list(text) ==
    [i \in 1 .. (Len(text) - 1) \div 2 |-> parse_int(text[2 * i])]

\* the tokens of one object take 9 places, the comma after it one more
json_load(text) ==
    [i \in 1 .. (Len(text) - 1) \div 10 |->
        [id |-> parse_int(text[10 * (i - 1) + 5]),
         pred |-> parse_value(text[10 * (i - 1) + 9])]]

----------------------------------------------------------------------------
(* Pure pieces of Reveal's train                                           *)

\* lines 41 and 173: for _ in range(n), after i iterations
more_batchesMutOneMore(i, n) == i <= n
more_batches(i, n) == i < n

\* line 68: if vf1 > best_f1
Improves(f, best) == f > best

\* line 64: if epoch_count % valid_every == 0
ValidationDueMutOffByOne(e, k) == (e + 1) % k = 0
ValidationDue(e, k) == e % k = 0

\* line 71: copy.deepcopy(model.state_dict())
deepcopy(m) == <<m>>

\* lines 90-93 and 98-101: if best_model is not None: model.load_state_dict(best_model)
load_state_dict(m, sd) == IF sd # None THEN sd[1] ELSE m

\* lines 43-44: model.zero_grad(); optimizer.zero_grad()
zero_gradMutKeep(g) == g
zero_grad(g) == <<>>

\* line 56: batch_loss.backward() adds the batch's gradient to the accumulated one
backward(g, b) == Append(g, b)

\* line 57: optimizer.step() moves the parameters along the accumulated gradient
optimizer_step(m, g) == IF g = <<>> THEN m ELSE m + 1

\* line 89: if patience_counter == max_patience
PatienceExhaustedMutGT(p, mp) == p > mp
PatienceExhausted(p, mp) == p = mp

----------------------------------------------------------------------------
(* History *)

HistInit ==
    [ scores      |-> <<>>,    \* validation F1 of each validation cycle
      losses      |-> <<>>,    \* SVulD: validation loss of each cycle
      monitored   |-> <<>>,    \* SVulD: values handed to early_stopping(...)
      paramsAt    |-> <<>>,    \* model parameters evaluated at each cycle
      validEpochs |-> <<>>,    \* epoch_count of each validation cycle
      stoppedAt   |-> 0,       \* cycle at which the loop broke out (0: it did not)
      interrupted |-> FALSE,   \* a KeyboardInterrupt arrived
      intAt       |-> "",      \* position it arrived at
      steps       |-> [b \in 1 .. NumTrainBatches |-> 0],  \* optimizer steps per batch, this epoch
      ops         |-> <<>> ]   \* gradient operations since (and with) the last zero_grad

----------------------------------------------------------------------------
(* Reveal: train (src/Graph/models/reveal/trainer.py, lines 24-139)        *)

infVars == <<inp, out, test_json, zs>>
svuldVars == <<early_stopping, eval_loss>>
argVars == <<prog, max_patience, valid_every>>

\* the examples of a split and their batching
SplitOf(xs, bs) ==
    [examples |-> xs, batch_size |-> bs, batches |-> Batches(xs, bs),
     batch_count |-> Len(Batches(xs, bs))]

\* the test split of a training run: NumTestBatches batches of two examples, ids
\* in descending order, both classes present
TestSplitOfRun ==
    SplitOf([i \in 1 .. 2 * NumTestBatches |->
                [id |-> ((2 * NumTestBatches - i) % MaxId) + 1,
                 target |-> i % 2,
                 probs |-> IF i % 2 = 1 THEN <<0, 2>> ELSE <<2, 0>>]], 2)

InitReveal ==
    /\ prog = "reveal"
    /\ pc = "for_epoch"
    /\ max_patience \in 0 .. MaxPatience
    /\ valid_every \in 1 .. MaxValidEvery
    /\ epoch_count = 0
    /\ batch_idx = 0
    /\ cur_batch = 0
    /\ model = 0
    /\ grad = <<>>
    /\ best_f1 = 0
    /\ best_model = None
    /\ patience_counter = 0
    /\ vf1 = 0
    /\ file \in {FileAbsent, FileStale}
    /\ ds = DsInit
    /\ early_stopping = None
    /\ eval_loss = 0
    /\ inp = TestSplitOfRun
    /\ out = None
    /\ test_json = None
    /\ zs = None
    /\ hist = HistInit

\* positions inside the try block of lines 34-94
TryPcs == {"for_epoch", "for_batch", "forward", "backward", "step", "valid_init",
           "evaluate", "compare", "snapshot", "open", "save", "check_patience"}

\* lines 35-40: next epoch: initialize_train_batches()
BeginEpoch ==
    /\ prog = "reveal" /\ pc = "for_epoch"
    /\ epoch_count < num_epochs
    /\ ds' = initialize_batches(ds, "train")
    /\ batch_idx' = 0
    /\ hist' = [hist EXCEPT !.steps = [b \in 1 .. NumTrainBatches |-> 0]]
    /\ pc' = "for_batch"
    /\ UNCHANGED <<argVars, epoch_count, cur_batch, model, grad, best_f1, best_model,
                   patience_counter, vf1, file, svuldVars, infVars>>

\* line 35 exhausted: the try block ends normally, line 103
EpochsDone ==
    /\ prog = "reveal" /\ pc = "for_epoch"
    /\ epoch_count >= num_epochs
    /\ pc' = "load"
    /\ UNCHANGED <<argVars, epoch_count, batch_idx, cur_batch, model, grad, best_f1,
                   best_model, patience_counter, vf1, file, ds, svuldVars, infVars, hist>>

\* lines 41-45: model.train(); zero_grad(); get_next_train_batch()
ZeroGradAndFetch ==
    /\ prog = "reveal" /\ pc = "for_batch"
    /\ more_batches(batch_idx, BatchCount("train"))
    /\ grad' = zero_grad(grad)
    /\ hist' = [hist EXCEPT !.ops = <<"zero">>]
    /\ IF can_get_next(ds, "train")
         THEN /\ cur_batch' = next_batch_id(ds, "train")
              /\ ds' = get_next_batch(ds, "train")
              /\ pc' = "forward"
         ELSE /\ pc' = "ds_error"
              /\ UNCHANGED <<cur_batch, ds>>
    /\ UNCHANGED <<argVars, epoch_count, batch_idx, model, best_f1, best_model,
                   patience_counter, vf1, file, svuldVars, infVars>>

\* lines 51-55: forward pass and loss of the fetched batch
Forward ==
    /\ prog = "reveal" /\ pc = "forward"
    /\ hist' = [hist EXCEPT !.ops = Append(@, "forward")]
    /\ pc' = "backward"
    /\ UNCHANGED <<argVars, epoch_count, batch_idx, cur_batch, model, grad, best_f1,
                   best_model, patience_counter, vf1, file, ds, svuldVars, infVars>>

\* line 56: batch_loss.backward()
Backward ==
    /\ prog = "reveal" /\ pc = "backward"
    /\ grad' = backward(grad, cur_batch)
    /\ hist' = [hist EXCEPT !.ops = Append(@, "backward")]
    /\ pc' = "step"
    /\ UNCHANGED <<argVars, epoch_count, batch_idx, cur_batch, model, best_f1,
                   best_model, patience_counter, vf1, file, ds, svuldVars, infVars>>

\* line 57: optimizer.step(); the for loop of line 41 advances
OptimizerStep ==
    /\ prog = "reveal" /\ pc = "step"
    /\ model' = optimizer_step(model, grad)
    /\ hist' = [hist EXCEPT
                  !.steps = [b \in 1 .. NumTrainBatches |->
                               @[b] + Cardinality({i \in 1 .. Len(grad) : grad[i] = b})],
                  !.ops = Append(@, "step")]
    /\ batch_idx' = batch_idx + 1
    /\ pc' = "for_batch"
    /\ UNCHANGED <<argVars, epoch_count, cur_batch, grad, best_f1, best_model,
                   patience_counter, vf1, file, ds, svuldVars, infVars>>

\* lines 58-64: the batches are exhausted; validate when epoch_count % valid_every == 0
EndBatches ==
    /\ prog = "reveal" /\ pc = "for_batch"
    /\ ~more_batches(batch_idx, BatchCount("train"))
    /\ IF ValidationDue(epoch_count, valid_every)
         THEN pc' = "valid_init" /\ UNCHANGED epoch_count
         ELSE pc' = "for_epoch" /\ epoch_count' = epoch_count + 1
    /\ UNCHANGED <<argVars, batch_idx, cur_batch, model, grad, best_f1, best_model,
                   patience_counter, vf1, file, ds, svuldVars, infVars, hist>>

\* line 65: valid_batch_count = dataset.initialize_valid_batches()
ValidInit ==
    /\ prog = "reveal" /\ pc = "valid_init"
    /\ ds' = initialize_batches(ds, "valid")
    /\ batch_idx' = 0
    /\ pc' = "evaluate"
    /\ UNCHANGED <<argVars, epoch_count, cur_batch, model, grad, best_f1, best_model,
                   patience_counter, vf1, file, svuldVars, infVars, hist>>

\* lines 173-186 inside the call of line 66: one batch of the validation pass
\* (torch.no_grad(): no gradient is computed)
ValidBatch ==
    /\ prog = "reveal" /\ pc = "evaluate"
    /\ more_batches(batch_idx, BatchCount("valid"))
    /\ IF can_get_next(ds, "valid")
         THEN /\ ds' = get_next_batch(ds, "valid")
              /\ batch_idx' = batch_idx + 1
              /\ pc' = "evaluate"
         ELSE /\ pc' = "ds_error"
              /\ UNCHANGED <<ds, batch_idx>>
    /\ UNCHANGED <<argVars, epoch_count, cur_batch, model, grad, best_f1, best_model,
                   patience_counter, vf1, file, svuldVars, infVars, hist>>

\* lines 187-197, 66: evaluate returns the validation F1 of the current parameters
ValidReturn ==
    /\ prog = "reveal" /\ pc = "evaluate"
    /\ ~more_batches(batch_idx, BatchCount("valid"))
    /\ \E f \in F1Values : vf1' = f
    /\ hist' = [hist EXCEPT !.scores = Append(@, vf1'),
                            !.paramsAt = Append(@, model),
                            !.validEpochs = Append(@, epoch_count)]
    /\ pc' = "compare"
    /\ UNCHANGED <<argVars, epoch_count, batch_idx, cur_batch, model, grad, best_f1,
                   best_model, patience_counter, file, ds, svuldVars, infVars>>

\* lines 68-70: a new best F1: best_f1 = vf1; patience_counter = 0
Improve ==
    /\ prog = "reveal" /\ pc = "compare"
    /\ Improves(vf1, best_f1)
    /\ best_f1' = vf1
    /\ patience_counter' = 0
    /\ pc' = "snapshot"
    /\ UNCHANGED <<argVars, epoch_count, batch_idx, cur_batch, model, grad, best_model,
                   vf1, file, ds, svuldVars, infVars, hist>>

\* lines 68, 74-75: no new best: patience_counter += 1
NoImprove ==
    /\ prog = "reveal" /\ pc = "compare"
    /\ ~Improves(vf1, best_f1)
    /\ patience_counter' = patience_counter + 1
    /\ pc' = "check_patience"
    /\ UNCHANGED <<argVars, epoch_count, batch_idx, cur_batch, model, grad, best_f1,
                   best_model, vf1, file, ds, svuldVars, infVars, hist>>

\* line 71: best_model = copy.deepcopy(model.state_dict())
Snapshot ==
    /\ prog = "reveal" /\ pc = "snapshot"
    /\ best_model' = deepcopy(model)
    /\ pc' = "open"
    /\ UNCHANGED <<argVars, epoch_count, batch_idx, cur_batch, model, grad, best_f1,
                   patience_counter, vf1, file, ds, svuldVars, infVars, hist>>

\* line 72: open(f"./{dataset_name}_best_f1.model", "wb") truncates the file
OpenCheckpoint ==
    /\ prog = "reveal" /\ pc = "open"
    /\ file' = FilePartial
    /\ pc' = "save"
    /\ UNCHANGED <<argVars, epoch_count, batch_idx, cur_batch, model, grad, best_f1,
                   best_model, patience_counter, vf1, ds, svuldVars, infVars, hist>>

\* line 73: torch.save(best_model, f), the with block closes the file
SaveCheckpoint ==
    /\ prog = "reveal" /\ pc = "save"
    /\ file' = FileOf(best_model)
    /\ pc' = "check_patience"
    /\ UNCHANGED <<argVars, epoch_count, batch_idx, cur_batch, model, grad, best_f1,
                   best_model, patience_counter, vf1, ds, svuldVars, infVars, hist>>

\* lines 89-94: patience exhausted: restore the best model and break
EarlyStop ==
    /\ prog = "reveal" /\ pc = "check_patience"
    /\ PatienceExhausted(patience_counter, max_patience)
    /\ model' = load_state_dict(model, best_model)
    /\ hist' = [hist EXCEPT !.stoppedAt = Len(hist.scores)]
    /\ pc' = "load"
    /\ UNCHANGED <<argVars, epoch_count, batch_idx, cur_batch, grad, best_f1, best_model,
                   patience_counter, vf1, file, ds, svuldVars, infVars>>

\* line 89 false: the epoch loop goes on
NextEpoch ==
    /\ prog = "reveal" /\ pc = "check_patience"
    /\ ~PatienceExhausted(patience_counter, max_patience)
    /\ epoch_count' = epoch_count + 1
    /\ pc' = "for_epoch"
    /\ UNCHANGED <<argVars, batch_idx, cur_batch, model, grad, best_f1, best_model,
                   patience_counter, vf1, file, ds, svuldVars, infVars, hist>>

\* lines 95-101: a KeyboardInterrupt anywhere inside the try block is caught:
\* the best model, if there is one, is loaded back
KeyboardInterrupt ==
    /\ prog = "reveal" /\ pc \in TryPcs
    /\ ~hist.interrupted
    /\ model' = load_state_dict(model, best_model)
    /\ hist' = [hist EXCEPT !.interrupted = TRUE, !.intAt = pc]
    /\ pc' = "load"
    /\ UNCHANGED <<argVars, epoch_count, batch_idx, cur_batch, grad, best_f1, best_model,
                   patience_counter, vf1, file, ds, svuldVars, infVars>>

\* line 107: model.load_state_dict(torch.load(f'./{dataset_name}_best_f1.model'))
\* raises when the file is missing or truncated
LoadBest ==
    /\ prog = "reveal" /\ pc = "load"
    /\ IF file.kind \in {"absent", "partial"}
         THEN pc' = "raised" /\ UNCHANGED model
         ELSE pc' = "test" /\ model' = file.params
    /\ UNCHANGED <<argVars, epoch_count, batch_idx, cur_batch, grad, best_f1, best_model,
                   patience_counter, vf1, file, ds, svuldVars, infVars, hist>>

\* line 109: if dataset.initialize_test_batches() != 0
TestInitCount ==
    /\ prog = "reveal" /\ pc = "test"
    /\ ds' = initialize_batches(ds, "test")
    /\ pc' = IF BatchCount("test") # 0 THEN "test_init" ELSE "done"
    /\ UNCHANGED <<argVars, epoch_count, batch_idx, cur_batch, model, grad, best_f1,
                   best_model, patience_counter, vf1, file, svuldVars, infVars, hist>>

\* line 111: the argument dataset.initialize_test_batches() initialises the split a
\* second time; lines 164-170: evaluate starts with empty lists
TestInit ==
    /\ prog = "reveal" /\ pc = "test_init"
    /\ ds' = initialize_batches(ds, "test")
    /\ batch_idx' = 0
    /\ out' = [predictions |-> <<>>, expectations |-> <<>>, all_probs |-> <<>>,
               all_ids |-> <<>>, calls |-> 0]
    /\ pc' = "test_eval"
    /\ UNCHANGED <<argVars, epoch_count, cur_batch, model, grad, best_f1, best_model,
                   patience_counter, vf1, file, svuldVars, inp, test_json, zs, hist>>

\* lines 173-186 inside the call of line 110: one batch of the test pass
TestBatch ==
    /\ prog = "reveal" /\ pc = "test_eval"
    /\ more_batches(batch_idx, BatchCount("test"))
    /\ IF can_get_next(ds, "test")
         THEN /\ out' = evaluate_batch(out, inp.batches[next_batch_id(ds, "test")])
              /\ ds' = get_next_batch(ds, "test")
              /\ batch_idx' = batch_idx + 1
              /\ pc' = "test_eval"
         ELSE /\ pc' = "ds_error"
              /\ UNCHANGED <<out, ds, batch_idx>>
    /\ UNCHANGED <<argVars, epoch_count, cur_batch, model, grad, best_f1, best_model,
                   patience_counter, vf1, file, svuldVars, inp, test_json, zs, hist>>

\* lines 187-197, 110: evaluate returns the metrics and the four lists; lines
\* 117-122: the records are built from all_ids and predications, sorted by id and
\* dumped to <result_dir>/reveal/<dataset_name>/test.json
TestWrite ==
    /\ prog = "reveal" /\ pc = "test_eval"
    /\ ~more_batches(batch_idx, BatchCount("test"))
    /\ test_json' = json_dump_int(sort_by_id(zip_ans(out.all_ids, out.predictions)))
    /\ pc' = "test_metrics"
    /\ UNCHANGED <<argVars, epoch_count, batch_idx, cur_batch, model, grad, best_f1,
                   best_model, patience_counter, vf1, file, ds, svuldVars, inp, out, zs,
                   hist>>

\* one class only among the labels: roc_auc_score raises ValueError or warns and
\* returns nan, depending on the scikit-learn release
OneClass(labels) == \A i, j \in 1 .. Len(labels) : labels[i] = labels[j]

\* lines 127-139: the summary lines; line 131 computes roc_auc_score
TestMetrics ==
    /\ prog = "reveal" /\ pc = "test_metrics"
    /\ \E raises \in BOOLEAN :
          pc' = IF OneClass(out.expectations) /\ raises THEN "value_error" ELSE "done"
    /\ UNCHANGED <<argVars, epoch_count, batch_idx, cur_batch, model, grad, best_f1,
                   best_model, patience_counter, vf1, file, ds, svuldVars, infVars, hist>>

NextRevealTest ==
    \/ TestInitCount \/ TestInit \/ TestBatch \/ TestWrite \/ TestMetrics

NextReveal ==
    \/ BeginEpoch \/ EpochsDone \/ ZeroGradAndFetch \/ Forward \/ Backward
    \/ OptimizerStep \/ EndBatches \/ ValidInit \/ ValidBatch \/ ValidReturn
    \/ Improve \/ NoImprove \/ Snapshot \/ OpenCheckpoint \/ SaveCheckpoint
    \/ EarlyStop \/ NextEpoch \/ KeyboardInterrupt \/ LoadBest \/ NextRevealTest

SpecReveal == InitReveal /\ [][NextReveal]_vars

\* the test phase alone, on every test split: the state in which line 109 is
\* reached after a training run that saved parameters 1
InitRevealTest ==
    /\ prog = "reveal"
    /\ pc = "test"
    /\ \E xs \in ExampleLists, bs \in 1 .. MaxBatchSize : inp = SplitOf(xs, bs)
    /\ out = None /\ test_json = None /\ zs = None
    /\ max_patience = 1 /\ valid_every = 1 /\ epoch_count = 1 /\ batch_idx = 0
    /\ cur_batch = 0 /\ model = 1 /\ grad = <<>> /\ best_f1 = 1
    /\ best_model = deepcopy(1) /\ patience_counter = 0 /\ vf1 = 1
    /\ file = FileOf(deepcopy(1)) /\ ds = DsInit
    /\ early_stopping = None /\ eval_loss = 0 /\ hist = HistInit

SpecRevealTest == InitRevealTest /\ [][NextRevealTest]_vars

----------------------------------------------------------------------------
(* EarlyStopping (utils/early_stopping.py is not part of the sources; this *)
(* is the policy of section 4.5 of the specification, monitoring a loss:   *)
(* lower is better)                                                        *)

EsPatience == 2

EarlyStoppingInit == [best_score |-> None, counter |-> 0, early_stop |-> FALSE]

\* early_stopping(eval_loss)
early_stopping_call(es, loss) ==
    IF es.best_score = None \/ loss < es.best_score[1]
      THEN [es EXCEPT !.best_score = <<loss>>, !.counter = 0]
      ELSE [es EXCEPT !.counter = @ + 1, !.early_stop = (es.counter + 1 >= EsPatience)]

----------------------------------------------------------------------------
(* SVulD: train (src/sequence/SVulD/run.py, lines 131-210)                 *)

SvMaxEpochs == 3
MaxLoss == 2

num_train_epochs == SvMaxEpochs
LossValues == 0 .. MaxLoss

\* line 192: if results['f1'] > best_f1
SvImprovesMutGE(f, best) == f >= best
SvImproves(f, best) == f > best

\* line 184: optimizer.zero_grad()
sv_zero_grad(g) == <<>>

revealVars == <<max_patience, valid_every, best_model, patience_counter, ds>>

InitSVulD ==
    /\ prog = "svuld"
    /\ pc = "s_zero0"
    /\ max_patience = 0
    /\ valid_every = 1
    /\ epoch_count = 0
    /\ batch_idx = 0
    /\ cur_batch = 0
    /\ model = 0
    /\ grad = <<>>
    /\ best_f1 = 0
    /\ best_model = None
    /\ patience_counter = 0
    /\ vf1 = 0
    /\ file \in {FileAbsent, FileStale}
    /\ ds = DsInit
    /\ early_stopping = EarlyStoppingInit
    /\ eval_loss = 0
    /\ inp = None
    /\ out = None
    /\ test_json = None
    /\ zs = None
    /\ hist = HistInit

\* positions inside train
SvTrainPcs == {"s_zero0", "s_for_epoch", "s_for_batch", "s_backward", "s_step", "s_zero",
               "s_evaluate", "s_compare", "s_save", "s_write", "s_early", "s_check"}

\* lines 159-161: losses, best_f1 = [], 0; model.zero_grad()
SvZeroGradFirst ==
    /\ prog = "svuld" /\ pc = "s_zero0"
    /\ grad' = <<>>
    /\ hist' = [hist EXCEPT !.ops = <<"zero">>]
    /\ pc' = "s_for_epoch"
    /\ UNCHANGED <<prog, revealVars, epoch_count, batch_idx, cur_batch, model, best_f1,
                   vf1, file, svuldVars, infVars>>

\* lines 162-163: next epoch, the DataLoader restarts
SvBeginEpoch ==
    /\ prog = "svuld" /\ pc = "s_for_epoch"
    /\ epoch_count < num_train_epochs
    /\ batch_idx' = 0
    /\ hist' = [hist EXCEPT !.steps = [b \in 1 .. NumTrainBatches |-> 0]]
    /\ pc' = "s_for_batch"
    /\ UNCHANGED <<prog, revealVars, epoch_count, cur_batch, model, grad, best_f1,
                   vf1, file, svuldVars, infVars>>

\* line 162 exhausted: train returns
SvEpochsDone ==
    /\ prog = "svuld" /\ pc = "s_for_epoch"
    /\ epoch_count >= num_train_epochs
    /\ pc' = "s_returned"
    /\ UNCHANGED <<prog, revealVars, epoch_count, batch_idx, cur_batch, model, grad,
                   best_f1, vf1, file, svuldVars, infVars, hist>>

\* lines 163-172: the DataLoader yields the next batch; forward pass and loss
SvForward ==
    /\ prog = "svuld" /\ pc = "s_for_batch"
    /\ batch_idx < NumTrainBatches
    /\ cur_batch' = batch_idx + 1
    /\ hist' = [hist EXCEPT !.ops = Append(@, "forward")]
    /\ pc' = "s_backward"
    /\ UNCHANGED <<prog, revealVars, epoch_count, batch_idx, model, grad, best_f1,
                   vf1, file, svuldVars, infVars>>

\* lines 174-181: loss.backward(); clip_grad_norm_
SvBackward ==
    /\ prog = "svuld" /\ pc = "s_backward"
    /\ grad' = backward(grad, cur_batch)
    /\ hist' = [hist EXCEPT !.ops = Append(@, "backward")]
    /\ pc' = "s_step"
    /\ UNCHANGED <<prog, revealVars, epoch_count, batch_idx, cur_batch, model, best_f1,
                   vf1, file, svuldVars, infVars>>

\* line 183: optimizer.step()
SvOptimizerStep ==
    /\ prog = "svuld" /\ pc = "s_step"
    /\ model' = optimizer_step(model, grad)
    /\ hist' = [hist EXCEPT
                  !.steps = [b \in 1 .. NumTrainBatches |->
                               @[b] + Cardinality({i \in 1 .. Len(grad) : grad[i] = b})],
                  !.ops = Append(@, "step")]
    /\ pc' = "s_zero"
    /\ UNCHANGED <<prog, revealVars, epoch_count, batch_idx, cur_batch, grad, best_f1,
                   vf1, file, svuldVars, infVars>>

\* lines 184-185: optimizer.zero_grad(); scheduler.step(); the batch loop advances
SvZeroGrad ==
    /\ prog = "svuld" /\ pc = "s_zero"
    /\ grad' = sv_zero_grad(grad)
    /\ hist' = [hist EXCEPT !.ops = <<"zero">>]
    /\ batch_idx' = batch_idx + 1
    /\ pc' = "s_for_batch"
    /\ UNCHANGED <<prog, revealVars, epoch_count, cur_batch, model, best_f1,
                   vf1, file, svuldVars, infVars>>

\* line 163 exhausted: the epoch's batches are done
SvEndBatches ==
    /\ prog = "svuld" /\ pc = "s_for_batch"
    /\ batch_idx >= NumTrainBatches
    /\ pc' = "s_evaluate"
    /\ UNCHANGED <<prog, revealVars, epoch_count, batch_idx, cur_batch, model, grad,
                   best_f1, vf1, file, svuldVars, infVars, hist>>

\* line 187: evaluate(...) returns the validation F1 and loss of the current
\* parameters (forward passes under torch.no_grad())
SvEvaluate ==
    /\ prog = "svuld" /\ pc = "s_evaluate"
    /\ \E f \in F1Values : vf1' = f
    /\ \E l \in LossValues : eval_loss' = l
    /\ hist' = [hist EXCEPT !.scores = Append(@, vf1'),
                            !.losses = Append(@, eval_loss'),
                            !.paramsAt = Append(@, model),
                            !.validEpochs = Append(@, epoch_count)]
    /\ pc' = "s_compare"
    /\ UNCHANGED <<prog, revealVars, epoch_count, batch_idx, cur_batch, model, grad,
                   best_f1, file, early_stopping, infVars>>

\* lines 192-196: a new best F1
SvImprove ==
    /\ prog = "svuld" /\ pc = "s_compare"
    /\ SvImproves(vf1, best_f1)
    /\ best_f1' = vf1
    /\ pc' = "s_save"
    /\ UNCHANGED <<prog, revealVars, epoch_count, batch_idx, cur_batch, model, grad,
                   vf1, file, svuldVars, infVars, hist>>

\* line 192 false
SvNoImprove ==
    /\ prog = "svuld" /\ pc = "s_compare"
    /\ ~SvImproves(vf1, best_f1)
    /\ pc' = "s_early"
    /\ UNCHANGED <<prog, revealVars, epoch_count, batch_idx, cur_batch, model, grad,
                   best_f1, vf1, file, svuldVars, infVars, hist>>

\* lines 198-204: torch.save(state_dict, <output_dir>/checkpoint-best-f1/model.bin)
\* opens the file for writing, which truncates it
SvSaveOpen ==
    /\ prog = "svuld" /\ pc = "s_save"
    /\ file' = FilePartial
    /\ pc' = "s_write"
    /\ UNCHANGED <<prog, revealVars, epoch_count, batch_idx, cur_batch, model, grad,
                   best_f1, vf1, svuldVars, infVars, hist>>

\* line 204, continued: the state dict of the live model is written
SvSaveWrite ==
    /\ prog = "svuld" /\ pc = "s_write"
    /\ file' = FileOf(<<model>>)
    /\ pc' = "s_early"
    /\ UNCHANGED <<prog, revealVars, epoch_count, batch_idx, cur_batch, model, grad,
                   best_f1, vf1, svuldVars, infVars, hist>>

\* line 207: early_stopping(eval_loss)
SvEarlyStoppingCall ==
    /\ prog = "svuld" /\ pc = "s_early"
    /\ early_stopping' = early_stopping_call(early_stopping, eval_loss)
    /\ hist' = [hist EXCEPT !.monitored = Append(@, eval_loss)]
    /\ pc' = "s_check"
    /\ UNCHANGED <<prog, revealVars, epoch_count, batch_idx, cur_batch, model, grad,
                   best_f1, vf1, file, eval_loss, infVars>>

\* lines 208-210: if early_stopping.early_stop: break
SvEarlyStop ==
    /\ prog = "svuld" /\ pc = "s_check"
    /\ early_stopping.early_stop
    /\ hist' = [hist EXCEPT !.stoppedAt = Len(hist.scores)]
    /\ pc' = "s_returned"
    /\ UNCHANGED <<prog, revealVars, epoch_count, batch_idx, cur_batch, model, grad,
                   best_f1, vf1, file, svuldVars, infVars>>

\* line 208 false: the epoch loop goes on
SvNextEpoch ==
    /\ prog = "svuld" /\ pc = "s_check"
    /\ ~early_stopping.early_stop
    /\ epoch_count' = epoch_count + 1
    /\ pc' = "s_for_epoch"
    /\ UNCHANGED <<prog, revealVars, batch_idx, cur_batch, model, grad,
                   best_f1, vf1, file, svuldVars, infVars, hist>>

\* lines 131-210 hold no try/except: a KeyboardInterrupt leaves train (and main,
\* line 448) as an exception, nothing is loaded back
SvKeyboardInterrupt ==
    /\ prog = "svuld" /\ pc \in SvTrainPcs
    /\ hist' = [hist EXCEPT !.interrupted = TRUE, !.intAt = pc]
    /\ pc' = "raised"
    /\ UNCHANGED <<prog, revealVars, epoch_count, batch_idx, cur_batch, model, grad,
                   best_f1, vf1, file, svuldVars, infVars>>

NextSVulD ==
    \/ SvZeroGradFirst \/ SvBeginEpoch \/ SvEpochsDone \/ SvForward \/ SvBackward
    \/ SvOptimizerStep \/ SvZeroGrad \/ SvEndBatches \/ SvEvaluate \/ SvImprove
    \/ SvNoImprove \/ SvSaveOpen \/ SvSaveWrite \/ SvEarlyStoppingCall
    \/ SvEarlyStop \/ SvNextEpoch \/ SvKeyboardInterrupt

SpecSVulD == InitSVulD /\ [][NextSVulD]_vars

\* both training loops
SpecTrain == (InitReveal \/ InitSVulD) /\ [][NextReveal \/ NextSVulD]_vars

----------------------------------------------------------------------------
(* Inference runners: Reveal's evaluate and predict (trainer.py, lines     *)
(* 142-197) and SVulD's detect (run.py, lines 326-364)                     *)

trainVars == <<max_patience, valid_every, epoch_count, cur_batch, model, grad, best_f1,
               best_model, patience_counter, vf1, file, ds, early_stopping, eval_loss,
               test_json, zs, hist>>

InitInference(p, start, o) ==
    /\ prog = p
    /\ pc = start
    /\ \E xs \in ExampleLists, bs \in 1 .. MaxBatchSize :
          inp = [examples |-> xs, batch_size |-> bs, batches |-> Batches(xs, bs),
                 batch_count |-> Len(Batches(xs, bs))]
    /\ out = o
    /\ test_json = None /\ zs = None
    /\ max_patience = 0 /\ valid_every = 1 /\ epoch_count = 0 /\ batch_idx = 0
    /\ cur_batch = 0 /\ model = 0 /\ grad = <<>> /\ best_f1 = 0 /\ best_model = None
    /\ patience_counter = 0 /\ vf1 = 0 /\ file = FileAbsent /\ ds = DsInit
    /\ early_stopping = None /\ eval_loss = 0 /\ hist = HistInit

\* trainer.py lines 164-170
InitEvaluate ==
    InitInference("evaluate", "e_loop",
                  [predictions |-> <<>>, expectations |-> <<>>, all_probs |-> <<>>,
                   all_ids |-> <<>>, calls |-> 0])

\* trainer.py lines 173-186: one iteration of for _ in range(_batch_count);
\* iterator_function() raises when the split is exhausted
EvaluateBatch ==
    /\ prog = "evaluate" /\ pc = "e_loop"
    /\ batch_idx < inp.batch_count
    /\ IF out.calls < Len(inp.batches)
         THEN /\ out' = evaluate_batch(out, inp.batches[out.calls + 1])
              /\ batch_idx' = batch_idx + 1
              /\ pc' = "e_loop"
         ELSE /\ pc' = "raised"
              /\ UNCHANGED <<out, batch_idx>>
    /\ UNCHANGED <<prog, inp, trainVars>>

\* trainer.py lines 187-197: the metrics are sklearn's, computed from the lists,
\* which are returned as they are
EvaluateReturn ==
    /\ prog = "evaluate" /\ pc = "e_loop"
    /\ batch_idx >= inp.batch_count
    /\ pc' = "e_returned"
    /\ UNCHANGED <<prog, inp, out, batch_idx, trainVars>>

SpecEvaluate == InitEvaluate /\ [][EvaluateBatch \/ EvaluateReturn]_vars

\* trainer.py lines 148-150
InitPredict ==
    InitInference("predict", "p_loop", [predictions |-> <<>>, calls |-> 0])

\* trainer.py lines 151-156: one iteration of predict_proba's loop
PredictBatch ==
    /\ prog = "predict" /\ pc = "p_loop"
    /\ batch_idx < inp.batch_count
    /\ IF out.calls < Len(inp.batches)
         THEN /\ out' = predict_batch(out, inp.batches[out.calls + 1])
              /\ batch_idx' = batch_idx + 1
              /\ pc' = "p_loop"
         ELSE /\ pc' = "raised"
              /\ UNCHANGED <<out, batch_idx>>
    /\ UNCHANGED <<prog, inp, trainVars>>

\* trainer.py lines 157-158, 144: predict returns np.argmax(probs, axis=-1) alone
PredictReturn ==
    /\ prog = "predict" /\ pc = "p_loop"
    /\ batch_idx >= inp.batch_count
    /\ out' = [preds |-> [i \in 1 .. Len(out.predictions) |-> argmax(out.predictions[i])]]
    /\ pc' = "p_returned"
    /\ UNCHANGED <<prog, inp, batch_idx, trainVars>>

\* run.py lines 327-345: the TextDataset reads a label of every example (line 93)
InitDetect ==
    InitInference("detect", "d_loop",
                  [logits |-> <<>>, labels |-> <<>>, indices |-> <<>>, calls |-> 0])

\* run.py lines 346-355: one batch of the DataLoader
DetectBatch ==
    /\ prog = "detect" /\ pc = "d_loop"
    /\ batch_idx < Len(inp.batches)
    /\ out' = detect_batch(out, inp.batches[batch_idx + 1])
    /\ batch_idx' = batch_idx + 1
    /\ pc' = "d_loop"
    /\ UNCHANGED <<prog, inp, trainVars>>

\* run.py lines 356-364: logits and labels are concatenated (np.concatenate raises
\* on an empty list), indices is returned as the list of per-batch arrays
DetectReturn ==
    /\ prog = "detect" /\ pc = "d_loop"
    /\ batch_idx >= Len(inp.batches)
    /\ IF Len(out.logits) = 0
         THEN pc' = "raised" /\ UNCHANGED out
         ELSE /\ out' = [results |-> [acc |-> Cardinality(
                                        {i \in 1 .. Len(concatenate(out.logits)) :
                                           concatenate(out.labels)[i]
                                             = (IF over_half(concatenate(out.logits)[i])
                                                  THEN 1 ELSE 0)})],
                         indices |-> out.indices,
                         preds |-> [i \in 1 .. Len(concatenate(out.logits)) |->
                                      over_half(concatenate(out.logits)[i])]]
              /\ pc' = "d_returned"
    /\ UNCHANGED <<prog, inp, batch_idx, trainVars>>

\* the prediction-only runners
SpecPredict ==
    (InitPredict \/ InitDetect)
    /\ [][PredictBatch \/ PredictReturn \/ DetectBatch \/ DetectReturn]_vars

----------------------------------------------------------------------------
(* Helpers of the properties                                               *)

MaxOf(S) == CHOOSE x \in S : \A y \in S : y <= x

\* best score among the first n (0, the initial best_f1, when there is none)
BestSoFar(s, n) == MaxOf({0} \cup {s[j] : j \in 1 .. n})

\* cycle i did not improve: its score is not strictly greater than the best before it
NonImproving(s, i) == s[i] <= BestSoFar(s, i - 1)

\* length of the run of consecutive non-improving cycles that ends at cycle n
RECURSIVE Trailing(_, _)
Trailing(s, n) ==
    IF n = 0 THEN 0
    ELSE IF NonImproving(s, n) THEN 1 + Trailing(s, n - 1) ELSE 0

\* the earliest cycle whose score is the highest of s (s not empty)
BestCycle(s) ==
    CHOOSE i \in 1 .. Len(s) :
        /\ \A j \in 1 .. Len(s) : s[j] <= s[i]
        /\ \A j \in 1 .. (i - 1) : s[j] < s[i]

\* positions between the end of a validation pass and the patience check
MidCyclePcs == {"compare", "snapshot", "open", "save"}

\* validation cycles whose comparison, checkpoint and patience check are over
Decided ==
    IF pc \in MidCyclePcs \cup {"check_patience"}
         \/ hist.intAt \in MidCyclePcs \cup {"check_patience"}
      THEN Len(hist.scores) - 1
      ELSE Len(hist.scores)

----------------------------------------------------------------------------
(* Properties of Reveal's train                                            *)

\* C1: after a completed validation cycle the retained checkpoint (best_model and
\* the checkpoint file) holds the parameters of the earliest validation cycle with
\* the highest validation F1 observed so far.
C1_CheckpointIsBestCycle ==
    (/\ prog = "reveal"
     /\ Len(hist.scores) >= 1
     /\ pc \notin MidCyclePcs
     /\ hist.intAt \notin MidCyclePcs)
    => /\ best_model = <<hist.paramsAt[BestCycle(hist.scores)]>>
       /\ file = [kind |-> "run", params |-> hist.paramsAt[BestCycle(hist.scores)]]

C3_RestoredAndTerminal ==
    (prog = "reveal" /\ hist.stoppedAt # 0)
    => /\ pc \in {"load", "test", "done", "raised"}
       /\ pc = "load" =>
            /\ best_model # None
            /\ model = hist.paramsAt[BestCycle(hist.scores)]

\* C4: a KeyboardInterrupt anywhere in the training loop is absorbed: train goes on
\* to the test pass and does not raise.
C4_InterruptGraceful ==
    (prog = "reveal" /\ hist.interrupted) => pc # "raised"

\* C7: with valid_every = k the validation passes are those of epochs 0, k, 2k, ...,
\* one per k epochs, and an epoch without a validation pass leaves best_f1,
\* patience_counter, best_model and the checkpoint file as they are.
C7_ValidationEveryK ==
    /\ [](prog = "reveal" =>
            /\ \A i \in 1 .. Len(hist.validEpochs) :
                 hist.validEpochs[i] = (i - 1) * valid_every
            /\ (pc = "for_epoch" /\ ~hist.interrupted /\ hist.stoppedAt = 0)
               => Len(hist.validEpochs)
                    = (epoch_count + valid_every - 1) \div valid_every)
    /\ [][(prog = "reveal" /\ pc \in TryPcs /\ epoch_count % valid_every # 0)
           => UNCHANGED <<best_f1, patience_counter, best_model, file>>]_vars

C7_Witness ==
    /\ prog = "reveal"
    /\ valid_every = 2
    /\ pc = "backward"
    /\ epoch_count = 3
    /\ hist.validEpochs = <<0, 2>>
    /\ best_model # None

----------------------------------------------------------------------------
(* Properties of SVulD's train                                             *)

\* positions of SVulD's train between the end of a validation pass and the
\* early-stopping check
SvMidCyclePcs == {"s_compare", "s_save", "s_write", "s_early"}

SvAfterCycle ==
    /\ prog = "svuld"
    /\ Len(hist.scores) >= 1
    /\ pc \notin SvMidCyclePcs
    /\ hist.intAt \notin SvMidCyclePcs

C6_InterruptHandledLocally ==
    prog = "svuld" =>
      /\ hist.interrupted => pc # "raised"
      /\ (pc = "s_returned" /\ hist.stoppedAt # 0 /\ file.kind = "run")
           => model = file.params

----------------------------------------------------------------------------
(* Properties of both training loops                                       *)

GradOrder == <<"zero", "forward", "backward", "step">>

\* batches of the current epoch whose optimizer step is done
BatchesStepped ==
    IF pc = "s_zero" THEN batch_idx + 1 ELSE batch_idx

InBatchLoop ==
    pc \in {"for_batch", "forward", "backward", "step",
            "s_for_batch", "s_backward", "s_step", "s_zero"}

\* C8: in an epoch every training batch is processed once, with one optimizer step
\* that applies the gradient of that batch alone; the gradient operations follow the
\* cycle zero, forward, backward, step, and the gradient is zero whenever a batch's
\* forward or backward pass begins.
C8_OneStepPerBatch ==
    /\ Len(hist.ops) <= 4 /\ hist.ops = SubSeq(GradOrder, 1, Len(hist.ops))
    /\ pc \in {"forward", "backward", "s_backward"} => grad = <<>>
    /\ (pc = "s_for_batch" /\ batch_idx < NumTrainBatches) => grad = <<>>
    /\ pc \in {"step", "s_step"} => grad = <<cur_batch>>
    /\ InBatchLoop =>
         /\ \A b \in 1 .. NumTrainBatches :
              hist.steps[b] = IF b <= BatchesStepped THEN 1 ELSE 0
         /\ model = epoch_count * NumTrainBatches + BatchesStepped
    /\ pc \in {"forward", "backward", "step", "s_backward", "s_step"}
         => cur_batch = batch_idx + 1

C8_Witness ==
    /\ prog = "svuld"
    /\ pc = "s_for_batch"
    /\ epoch_count = 1
    /\ batch_idx = NumTrainBatches
    /\ \A b \in 1 .. NumTrainBatches : hist.steps[b] = 1

----------------------------------------------------------------------------
(* Properties of the inference runners                                     *)

\* C9: evaluate calls the iterator batch_count times and returns four parallel
\* lists with one entry per example, in iteration order, position i of each list
\* belonging to the i-th example.
C9_EvaluateParallelLists ==
    (prog = "evaluate" /\ pc = "e_returned") =>
      /\ out.calls = inp.batch_count
      /\ Len(out.expectations) = Len(inp.examples)
      /\ Len(out.all_probs) = Len(inp.examples)
      /\ Len(out.all_ids) = Len(inp.examples)
      /\ Len(out.predictions) = Len(inp.examples)
      /\ \A i \in 1 .. Len(inp.examples) :
           /\ out.expectations[i] = inp.examples[i].target
           /\ out.all_probs[i] = inp.examples[i].probs[2]
           /\ out.all_ids[i] = inp.examples[i].id
           /\ out.predictions[i]
                = (IF inp.examples[i].probs[2] > inp.examples[i].probs[1] THEN 1 ELSE 0)

C9_Witness ==
    /\ prog = "evaluate"
    /\ pc = "e_returned"
    /\ Len(inp.examples) = 3
    /\ inp.batch_count = 2
    /\ out.all_ids = <<2, 1, 2>>
    /\ out.predictions = <<1, 0, 0>>

\* C10: SVulD's detect returns predictions and ids as parallel lists with one
\* prediction and one id per input example, whatever the batch size. (Reveal's
\* predict returns the predictions alone.)
C10_PredictionsAndIdsParallel ==
    (prog = "detect" /\ pc = "d_returned") =>
      /\ Len(out.preds) = Len(inp.examples)
      /\ Len(out.indices) = Len(inp.examples)

----------------------------------------------------------------------------
(* SVulD's main under do_test (run.py, lines 452-467) with the evaluate it *)
(* calls (lines 213-262)                                                   *)

\* run.py lines 231-242: what one batch adds to evaluate's three lists
sv_evaluate_batch(o, batch) ==
    [o EXCEPT !.logits = append(@, [i \in 1 .. Len(batch) |-> batch[i].probs]),
              !.labels = append(@, [i \in 1 .. Len(batch) |-> batch[i].target]),
              !.indices = append(@, [i \in 1 .. Len(batch) |-> batch[i].id]),
              !.calls = @ + 1]

\* the state at line 452: the test data file holds any list of examples; the
\* checkpoint file is missing or holds saved parameters
InitSVulDTest ==
    /\ prog = "svuld_test"
    /\ pc = "t_load"
    /\ \E xs \in ExampleLists, bs \in 1 .. MaxBatchSize : inp = SplitOf(xs, bs)
    /\ out = None /\ test_json = None /\ zs = None
    /\ file \in {FileAbsent, FileOf(deepcopy(1))}
    /\ max_patience = 0 /\ valid_every = 1 /\ epoch_count = 0 /\ batch_idx = 0
    /\ cur_batch = 0 /\ model = 0 /\ grad = <<>> /\ best_f1 = 0 /\ best_model = None
    /\ patience_counter = 0 /\ vf1 = 0 /\ ds = DsInit
    /\ early_stopping = None /\ eval_loss = 0 /\ hist = HistInit

svTestVars == <<max_patience, valid_every, epoch_count, batch_idx, cur_batch, grad,
                best_f1, best_model, patience_counter, vf1, file, ds, early_stopping,
                eval_loss, zs, hist>>

\* lines 453-458, 215-230: the best checkpoint is loaded (torch.load raises when the
\* file is missing) and evaluate starts with empty lists
SvTestLoad ==
    /\ prog = "svuld_test" /\ pc = "t_load"
    /\ IF file.kind \in {"absent", "partial"}
         THEN pc' = "raised" /\ UNCHANGED <<model, out>>
         ELSE /\ model' = file.params
              /\ out' = [logits |-> <<>>, labels |-> <<>>, indices |-> <<>>, calls |-> 0]
              /\ pc' = "t_eval"
    /\ UNCHANGED <<prog, inp, test_json, svTestVars>>

\* lines 231-242: one batch of the sequential loader
SvTestBatch ==
    /\ prog = "svuld_test" /\ pc = "t_eval"
    /\ out.calls < Len(inp.batches)
    /\ out' = sv_evaluate_batch(out, inp.batches[out.calls + 1])
    /\ UNCHANGED <<prog, pc, model, inp, test_json, svTestVars>>

\* lines 243-262: the lists are concatenated (np.concatenate raises on an empty
\* list), preds = logits[:, 1] > 0.5, the metrics are computed (roc_auc_score of
\* line 253 may raise on labels of one class) and evaluate returns
SvTestReturn ==
    /\ prog = "svuld_test" /\ pc = "t_eval"
    /\ out.calls >= Len(inp.batches)
    /\ IF Len(out.logits) = 0
         THEN pc' = "raised" /\ UNCHANGED out
         ELSE /\ out' = [indices |-> concatenate(out.indices),
                         labels |-> concatenate(out.labels),
                         preds |-> [i \in 1 .. Len(concatenate(out.logits)) |->
                                      over_half(concatenate(out.logits)[i])],
                         calls |-> out.calls]
              /\ \E raises \in BOOLEAN :
                    pc' = IF OneClass(concatenate(out.labels)) /\ raises
                            THEN "value_error" ELSE "t_write"
    /\ UNCHANGED <<prog, model, inp, test_json, svTestVars>>

\* lines 465-466: the data frame of ids and preds is dumped, record by record in row
\* order, to storage/test.json
SvTestWrite ==
    /\ prog = "svuld_test" /\ pc = "t_write"
    /\ test_json' = json_dump_bool(to_dict_records(out.indices, out.preds))
    /\ pc' = "t_done"
    /\ UNCHANGED <<prog, model, inp, out, svTestVars>>

NextSVulDTest == SvTestLoad \/ SvTestBatch \/ SvTestReturn \/ SvTestWrite

SpecSVulDTest == InitSVulDTest /\ [][NextSVulDTest]_vars

----------------------------------------------------------------------------
(* Zero-shot runner (src/LLM/run_zero_shot.py): one zero_shot.py           *)
(* subprocess per split, then the merge of the split result files.         *)
(* zero_shot.py is not part of the sources: a subprocess is modelled from  *)
(* section 5 of the specification and the file names the merge reads, as   *)
(* writing prompt_<p>_result_split_<split_idx>.json for p = 0, 1, ... and  *)
(* possibly failing at any point. Result records are numbers.              *)

SplitIdx == 0 .. split_cnt - 1
PromptIds == 0 .. NumPrompts - 1

\* np.array_split(xs, k): the first Len(xs) % k parts have one element more
array_split(xs, k) ==
    LET q == Len(xs) \div k
        r == Len(xs) % k
        start(i) == (i - 1) * q + (IF i - 1 < r THEN i - 1 ELSE r)
        size(i) == q + (IF i <= r THEN 1 ELSE 0)
    IN [i \in 1 .. k |-> SubSeq(xs, start(i) + 1, start(i) + size(i))]

\* line 36: save_dir / f'prompt_{prompt_id}_result_split_{split_idx}.json'
split_pathMutZero(prompt_id, split_idx) == <<prompt_id, 0>>
split_path(prompt_id, split_idx) == <<prompt_id, split_idx>>

\* line 24: x.wait() returns once the subprocess has terminated
returnedMutAny(p) == TRUE
returned(p) == p.status = "exited"

\* the record lists a subprocess may write for a prompt of its split
ResultLists(prompt_id, split_idx) ==
    {[k \in 1 .. n |-> (prompt_id * split_cnt + split_idx) * MaxRecords + k] :
        n \in 0 .. MaxRecords}

\* split result files an earlier run may have left in save_dir: none, or those of
\* one prompt id
StaleDirs ==
    {[f \in PromptIds \X SplitIdx |->
         IF f[1] = q THEN json_dump_list(<<0>>) ELSE None] : q \in 0 .. NumPrompts}

\* Path.exists()
file_exists(files, path) == path \in DOMAIN files /\ files[path] # None

NoProc == [status |-> "none", code |-> 0, gpus |-> <<>>, split_idx |-> 0,
           total_split_cnt |-> 0, next |-> 0, launches |-> 0]

\* lines 13-17
InitZeroShot ==
    /\ prog = "zero_shot"
    /\ pc = "z_start"
    /\ \E dir \in StaleDirs :
          zs = [gpus_splits |-> <<>>, split_idx |-> 0, all_p |-> <<>>, waited |-> 0,
                procs |-> [s \in SplitIdx |-> NoProc],
                files |-> dir, written |-> {},
                prompt_id |-> 0, merge_split |-> 0, merge_result |-> <<>>,
                merged |-> [q \in PromptIds |-> None]]
    /\ inp = None /\ out = None /\ test_json = None
    /\ max_patience = 0 /\ valid_every = 1 /\ epoch_count = 0 /\ batch_idx = 0
    /\ cur_batch = 0 /\ model = 0 /\ grad = <<>> /\ best_f1 = 0 /\ best_model = None
    /\ patience_counter = 0 /\ vf1 = 0 /\ file = FileAbsent /\ ds = DsInit
    /\ early_stopping = None /\ eval_loss = 0 /\ hist = HistInit

zsRest == <<prog, max_patience, valid_every, epoch_count, batch_idx, cur_batch, model,
            grad, best_f1, best_model, patience_counter, vf1, file, ds, early_stopping,
            eval_loss, inp, out, test_json, hist>>

\* lines 13-17: the assert, then the GPU list is split into split_cnt parts
ZsSplitGpus ==
    /\ prog = "zero_shot" /\ pc = "z_start"
    /\ IF Len(all_gpus) % split_cnt = 0
         THEN /\ zs' = [zs EXCEPT !.gpus_splits = array_split(all_gpus, split_cnt)]
              /\ pc' = "z_launch"
         ELSE /\ pc' = "assert_error"
              /\ UNCHANGED zs
    /\ UNCHANGED zsRest

\* lines 19-22: one iteration of for split_idx in range(split_cnt): Popen, append
ZsPopen ==
    /\ prog = "zero_shot" /\ pc = "z_launch"
    /\ zs.split_idx < split_cnt
    /\ zs' = [zs EXCEPT
                !.procs[zs.split_idx] =
                    [status |-> "running", code |-> 0,
                     gpus |-> zs.gpus_splits[zs.split_idx + 1],
                     split_idx |-> zs.split_idx, total_split_cnt |-> split_cnt,
                     next |-> 0, launches |-> @.launches + 1],
                !.all_p = append(@, zs.split_idx),
                !.split_idx = @ + 1]
    /\ pc' = IF zs.split_idx + 1 < split_cnt THEN "z_launch" ELSE "z_wait"
    /\ UNCHANGED zsRest

\* line 24: [x.wait() for x in all_p], one wait after the other; lines 27-28 once
\* the last one has returned
ZsWait ==
    /\ prog = "zero_shot" /\ pc = "z_wait"
    /\ zs.waited < Len(zs.all_p)
    /\ returned(zs.procs[zs.all_p[zs.waited + 1]])
    /\ zs' = [zs EXCEPT !.waited = @ + 1]
    /\ pc' = IF zs.waited + 1 < Len(zs.all_p) THEN "z_wait" ELSE "z_merge"
    /\ UNCHANGED zsRest

\* lines 29-33: the next prompt id; the loop ends at the first prompt id without
\* a result file of split 0
ZsNextPrompt ==
    /\ prog = "zero_shot" /\ pc = "z_merge"
    /\ IF zs.prompt_id >= prompt_limit
         THEN pc' = "z_done" /\ UNCHANGED zs
         ELSE IF ~file_exists(zs.files, split_path(zs.prompt_id, 0))
                THEN pc' = "z_done" /\ UNCHANGED zs
                ELSE /\ zs' = [zs EXCEPT !.merge_result = <<>>, !.merge_split = 0]
                     /\ pc' = "z_load"
    /\ UNCHANGED zsRest

\* lines 35-37: the result list of one split is loaded (a missing file raises)
\* and appended to merge_result
ZsLoadSplit ==
    /\ prog = "zero_shot" /\ pc = "z_load"
    /\ zs.merge_split < split_cnt
    /\ IF ~file_exists(zs.files, split_path(zs.prompt_id, zs.merge_split))
         THEN pc' = "raised" /\ UNCHANGED zs
         ELSE /\ zs' = [zs EXCEPT
                          !.merge_result =
                              extend(@, json_load_list(
                                  zs.files[split_path(zs.prompt_id, zs.merge_split)])),
                          !.merge_split = @ + 1]
              /\ pc' = "z_load"
    /\ UNCHANGED zsRest

\* line 39: the merged list is dumped to prompt_<prompt_id>_result.json
ZsDump ==
    /\ prog = "zero_shot" /\ pc = "z_load"
    /\ zs.merge_split >= split_cnt
    /\ zs' = [zs EXCEPT !.merged[zs.prompt_id] = json_dump_list(zs.merge_result),
                        !.prompt_id = @ + 1]
    /\ pc' = "z_merge"
    /\ UNCHANGED zsRest

\* a running subprocess writes the result file of its next prompt
SubWrite(s) ==
    /\ prog = "zero_shot"
    /\ zs.procs[s].status = "running"
    /\ zs.procs[s].next < NumPrompts
    /\ \E result \in ResultLists(zs.procs[s].next, zs.procs[s].split_idx) :
          zs' = [zs EXCEPT
                   !.files[<<zs.procs[s].next, zs.procs[s].split_idx>>] =
                       json_dump_list(result),
                   !.written = @ \cup {<<zs.procs[s].next, zs.procs[s].split_idx>>},
                   !.procs[s].next = @ + 1]
    /\ UNCHANGED <<pc, zsRest>>

\* a subprocess that has written all its files exits with code 0
SubExit(s) ==
    /\ prog = "zero_shot"
    /\ zs.procs[s].status = "running"
    /\ zs.procs[s].next >= NumPrompts
    /\ zs' = [zs EXCEPT !.procs[s].status = "exited"]
    /\ UNCHANGED <<pc, zsRest>>

\* a running subprocess fails: it exits with a non-zero code, the files it has not
\* written yet stay missing
SubFail(s) ==
    /\ prog = "zero_shot"
    /\ zs.procs[s].status = "running"
    /\ zs' = [zs EXCEPT !.procs[s].status = "exited", !.procs[s].code = 1]
    /\ UNCHANGED <<pc, zsRest>>

NextZeroShot ==
    \/ ZsSplitGpus \/ ZsPopen \/ ZsWait \/ ZsNextPrompt \/ ZsLoadSplit \/ ZsDump
    \/ \E s \in SplitIdx : SubWrite(s) \/ SubExit(s) \/ SubFail(s)

SpecZeroShot == InitZeroShot /\ [][NextZeroShot]_vars

----------------------------------------------------------------------------
(* C11: the test prediction file of Reveal's train                         *)

Count(seq, r) == Cardinality({i \in 1 .. Len(seq) : seq[i] = r})

SortedById(recs) ==
    \A i, j \in 1 .. Len(recs) : i < j => recs[i].id <= recs[j].id

\* the record the test pass owes to each example of the split, in split order
ExpectedRecords ==
    [i \in 1 .. Len(inp.examples) |->
        [id |-> inp.examples[i].id, pred |-> argmax(inp.examples[i].probs)]]

\* C11: once test.json is written, reading it back gives an array with exactly one
\* {id, pred} record per test example (pred the label predicted for that example),
\* in ascending order of id whatever the order of the examples in the batches, and
\* it is the sorted array that was dumped.
C11_TestFileSortedRoundTrip ==
    (prog = "reveal" /\ test_json # None)
    => LET recs == json_load(test_json) IN
         /\ Len(recs) = Len(inp.examples)
         /\ \A i \in 1 .. Len(recs) :
               Count(recs, recs[i]) = Count(ExpectedRecords, recs[i])
         /\ SortedById(recs)
         /\ recs = sort_by_id(zip_ans(out.all_ids, out.predictions))
         /\ json_dump_int(recs) = test_json

\* a written file of a split delivered in several batches with ids out of order
C11_Witness ==
    /\ prog = "reveal" /\ test_json # None
    /\ inp.batch_count >= 2
    /\ ~SortedById(inp.examples)
    /\ SortedById(json_load(test_json))

----------------------------------------------------------------------------
(* C12: the test prediction file of SVulD's main                           *)

\* C12: the file SVulD's main writes under do_test is a JSON array of {id, pred}
\* records in ascending order of id, for any order of the examples in the test data
\* file.
C12_SvTestFileSorted ==
    (prog = "svuld_test" /\ test_json # None) => SortedById(json_load(test_json))

----------------------------------------------------------------------------
(* C13-C15: the zero-shot runner                                           *)

\* every split result file of prompt p exists
Complete(p) == \A s \in SplitIdx : zs.files[<<p, s>>] # None

\* the split result lists of prompt p, one after the other by split index
ConcatOfSplits(p) ==
    concatenate([i \in 1 .. split_cnt |-> json_load_list(zs.files[<<p, i - 1>>])])

MergePcs == {"z_merge", "z_load", "z_done", "raised"}

MergeEnded == prog = "zero_shot" /\ pc \in {"z_done", "raised"}

\* C13 as stated: when the merge has ended, every prompt id whose split result
\* files all exist has a merged file equal to the concatenation of its split result
\* lists in ascending order of split index.
C13_EveryCompletePromptMerged ==
    MergeEnded
    => \A p \in PromptIds :
          Complete(p) => /\ zs.merged[p] # None
                         /\ json_load_list(zs.merged[p]) = ConcatOfSplits(p)

\* C13 as the code has it: every merged file written is the concatenation of the
\* split result lists of its prompt in ascending order of split index, and when the
\* merge has ended every prompt id below 100 that has, as every smaller prompt id
\* has, all its split result files, has its merged file.
C13_MergedIsConcatenation ==
    prog = "zero_shot"
    => /\ \A p \in PromptIds :
             zs.merged[p] # None
             => /\ \A q \in 0 .. p : Complete(q)
                /\ json_load_list(zs.merged[p]) = ConcatOfSplits(p)
       /\ MergeEnded
          => \A p \in PromptIds :
                (p < prompt_limit /\ \A q \in 0 .. p : Complete(q))
                => zs.merged[p] # None

\* every prompt merged from full split result lists
C13_Witness ==
    /\ prog = "zero_shot" /\ pc = "z_done"
    /\ \A p \in PromptIds :
          /\ zs.merged[p] # None
          /\ Len(json_load_list(zs.merged[p])) = split_cnt * MaxRecords

\* the set of elements of a sequence
Elems(xs) == {xs[i] : i \in 1 .. Len(xs)}

\* C14: one subprocess is started per split, on the GPU partition of its split;
\* the partitions are pairwise disjoint and cover all_gpus; the merge begins only
\* when every subprocess has terminated, however the subprocesses interleave.
C14_FanOutThenBarrier ==
    prog = "zero_shot"
    => /\ pc # "z_start"
          => /\ Len(zs.gpus_splits) = split_cnt
             /\ \A i, j \in 1 .. split_cnt :
                   i # j => Elems(zs.gpus_splits[i]) \cap Elems(zs.gpus_splits[j]) = {}
             /\ UNION {Elems(zs.gpus_splits[i]) : i \in 1 .. split_cnt}
                   = Elems(all_gpus)
       /\ \A s \in SplitIdx :
             /\ zs.procs[s].launches <= 1
             /\ zs.procs[s].status # "none"
                => /\ zs.procs[s].gpus = zs.gpus_splits[s + 1]
                   /\ zs.procs[s].split_idx = s
                   /\ zs.procs[s].total_split_cnt = split_cnt
       /\ pc \in MergePcs \cup {"z_wait"}
          => \A s \in SplitIdx : zs.procs[s].launches = 1
       /\ pc \in MergePcs
          => \A s \in SplitIdx : zs.procs[s].status = "exited"

\* the merge at work, both subprocesses having run on their own partition and
\* terminated
C14_Witness ==
    /\ prog = "zero_shot" /\ pc = "z_load"
    /\ \A s \in SplitIdx : zs.procs[s].status = "exited" /\ zs.procs[s].code = 0
    /\ zs.procs[0].gpus = <<0, 1>>
    /\ zs.procs[1].gpus = <<6, 7>>

\* C15: when a subprocess has failed and left a split result file missing, the
\* merge does not finish without an error while a prompt has results of this run
\* left unmerged, and no merged file is written that lacks a split.
C15_MergeFailsLoudly ==
    (/\ prog = "zero_shot"
     /\ \E s \in SplitIdx :
           zs.procs[s].code = 1 /\ \E p \in PromptIds : zs.files[<<p, s>>] = None)
    => /\ pc = "z_done"
          => \A p \in PromptIds :
                (\E s \in SplitIdx : <<p, s>> \in zs.written) => zs.merged[p] # None
       /\ \A p \in PromptIds : zs.merged[p] # None => Complete(p)

----------------------------------------------------------------------------
(* C16-C18: Reveal's train                                                 *)

\* C16: in every reachable state of train 0 <= patience_counter <= max_patience;
\* the counter changes only at the comparison of a validation cycle, where it is
\* reset to 0 or incremented by one; and when patience_counter = max_patience is
\* found after a validation cycle the loop is left.
C16_PatienceBounded ==
    /\ [](prog = "reveal" => 0 <= patience_counter /\ patience_counter <= max_patience)
    /\ [][(prog = "reveal" /\ patience_counter' # patience_counter)
           => /\ pc = "compare"
              /\ patience_counter' = 0 \/ patience_counter' = patience_counter + 1]_vars
    /\ [][(prog = "reveal" /\ pc = "check_patience" /\ patience_counter = max_patience)
           => pc' \notin TryPcs]_vars

\* positions of train at which the training batches of the epoch have all been
\* fetched, at which the validation pass is over, and at which the test pass is
AfterTrainPass == {"valid_init", "evaluate"} \cup MidCyclePcs \cup {"check_patience"}
AfterValidPass == MidCyclePcs \cup {"check_patience"}
AfterTestPass == {"test_metrics", "value_error"}

\* C17: train and the evaluate it calls never ask the adapter for a batch of a
\* split that was not initialised or has no batch left; after an initialisation
\* of a split at most the returned batch_count batches of it are fetched, and
\* exactly batch_count by the end of a pass that was not interrupted: the training
\* batches of an epoch, the validation pass, the final test pass.
C17_AdapterProtocol ==
    prog = "reveal"
    => /\ pc # "ds_error"
       /\ \A s \in Splits :
             /\ ds[s].calls <= BatchCount(s)
             /\ ds[s].calls > 0 => ds[s].ready
             /\ ds[s].calls + ds[s].left = (IF ds[s].ready THEN BatchCount(s) ELSE 0)
       /\ pc \in AfterTrainPass => ds["train"].calls = BatchCount("train")
       /\ pc \in AfterValidPass => ds["valid"].calls = BatchCount("valid")
       /\ pc \in AfterTestPass => ds["test"].calls = BatchCount("test")
       /\ pc = "done" => ds["test"].calls = BatchCount("test") /\ ds["test"].ready

\* a run through training, validation and the test pass, the test split initialised
\* on line 109 and again on line 111
C17_Witness ==
    /\ prog = "reveal" /\ pc = "done"
    /\ ds["train"].calls = NumTrainBatches /\ ds["train"].inits = 2
    /\ ds["valid"].calls = NumValidBatches /\ ds["valid"].inits = 2
    /\ ds["test"].calls = NumTestBatches /\ ds["test"].inits = 2

\* positions of train after line 107
AfterLoad == {"raised", "test", "test_init", "test_eval", "test_metrics",
              "value_error", "done", "ds_error"}

\* C18: however training ended, line 107 loads a checkpoint file that this run
\* wrote and that holds the in-memory best snapshot, and the test pass runs on
\* those parameters.
C18_TestRunsOnOwnBestCheckpoint ==
    (prog = "reveal" /\ pc \in AfterLoad)
    => /\ pc # "raised"
       /\ file.kind = "run"
       /\ best_model = <<file.params>>
       /\ model = file.params

====
